---- MODULE Spec2Model ----
(***************************************************************************)
(* Model of src/features/BeautificationManager.js (Phoenix code editor):   *)
(* the beautify orchestration (_prettify, _getBeautifiedCodeDetails,       *)
(* _replaceText), the on-save trigger and the on-save preference toggle.   *)
(*                                                                         *)
(* The host collaborators (editor, provider registry, command, local       *)
(* storage) are not part of the file; they are modelled from the design    *)
(* document and kept as small as the orchestration needs.                  *)
(***************************************************************************)
EXTENDS Integers, Sequences, FiniteSets, TLC

(***************************************************************************)
(* Bounds of the model.                                                    *)
(***************************************************************************)
\* number of beautify invocations (_prettify calls that pass the editor guard)
MaxInvocations == 2

\* number of entries the registry holds, over all its buckets
MaxEntries == 3

(***************************************************************************)
(* Text and positions.  A document text is a sequence of one-character     *)
(* strings; NL separates lines.  A position is a record [line, ch].        *)
(***************************************************************************)
NL == "\n"

Min(a, b) == IF a < b THEN a ELSE b

Pos(l, c) == [line |-> l, ch |-> c]

\* indexes of the line separators of text t
NLIdx(t) == {i \in 1..Len(t) : t[i] = NL}

LastLine(t) == Cardinality(NLIdx(t))

\* offset (number of characters before it) of the first character of line k
LineStart(t, k) ==
    IF k = 0 THEN 0
    ELSE CHOOSE i \in NLIdx(t) : Cardinality({j \in NLIdx(t) : j <= i}) = k

\* offset of the end of line k (before its separator)
LineEnd(t, k) == IF k = LastLine(t) THEN Len(t) ELSE LineStart(t, k + 1) - 1

\* offset of a position; a position outside the text reads as the nearest one in it
PosToOffset(t, p) ==
    IF p.line > LastLine(t) THEN Len(t)
    ELSE Min(LineStart(t, p.line) + p.ch, LineEnd(t, p.line))

OffsetToPos(t, off) ==
    LET l == Cardinality({j \in NLIdx(t) : j <= off})
    IN  Pos(l, off - LineStart(t, l))

\* text t with the characters of offsets [from, to) replaced by txt
Splice(t, from, to, txt) == SubSeq(t, 1, from) \o txt \o SubSeq(t, to + 1, Len(t))

(***************************************************************************)
(* The editor collaborator.  An editor is a record                         *)
(*   text          the document text                                       *)
(*   anchor, head  the selection; head is the cursor                       *)
(*   ops           how many times each mutating call was made on it        *)
(*   messages      the error messages displayed at its cursor              *)
(***************************************************************************)
NoOps == [setSelection |-> 0, replaceSelection |-> 0, replaceRange |-> 0, setCursorPos |-> 0]

getRange(ed, start, end) ==
    SubSeq(ed.text, PosToOffset(ed.text, start) + 1, PosToOffset(ed.text, end))

getEndingCursorPos(ed) == OffsetToPos(ed.text, Len(ed.text))

getCursorPos(ed) == ed.head

hasSelection(ed) == ed.anchor # ed.head

setCursorPos(ed, l, c) ==
    [ed EXCEPT !.anchor = Pos(l, c), !.head = Pos(l, c),
               !.ops.setCursorPos = @ + 1]

setSelection(ed, start, end) ==
    [ed EXCEPT !.anchor = start, !.head = end, !.ops.setSelection = @ + 1]

clearSelection(ed) == [ed EXCEPT !.anchor = ed.head]

\* replaceSelection(text, 'around'): the inserted text ends up selected
replaceSelection(ed, txt) ==
    LET a    == PosToOffset(ed.text, ed.anchor)
        h    == PosToOffset(ed.text, ed.head)
        from == Min(a, h)
        to   == IF a < h THEN h ELSE a
        new  == Splice(ed.text, from, to, txt)
    IN  [ed EXCEPT !.text = new,
                   !.anchor = OffsetToPos(new, from),
                   !.head = OffsetToPos(new, from + Len(txt)),
                   !.ops.replaceSelection = @ + 1]

\* replaceRange(text, start, end): a cursor inside the replaced range moves to
\* the end of the inserted text
replaceRange(ed, txt, start, end) ==
    LET from == PosToOffset(ed.text, start)
        to   == PosToOffset(ed.text, end)
        new  == Splice(ed.text, from, to, txt)
        Moved(p) ==
            LET o == PosToOffset(ed.text, p)
            IN  IF o < from THEN p
                ELSE IF o <= to THEN OffsetToPos(new, from + Len(txt))
                ELSE OffsetToPos(new, o - (to - from) + Len(txt))
    IN  [ed EXCEPT !.text = new,
                   !.anchor = Moved(ed.anchor),
                   !.head = Moved(ed.head),
                   !.ops.replaceRange = @ + 1]

displayErrorMessageAtCursor(ed, message) ==
    [ed EXCEPT !.messages = Append(@, message)]

(***************************************************************************)
(* Providers, languages and the priority based registry.                   *)
(***************************************************************************)
Editors == {"e1", "e2"}

NoEditor == "none"

\* editor.document.file.fullPath
FilePath(e) == IF e = "e1" THEN "/main.js" ELSE "/notes.txt"

\* LanguageManager.getLanguageForPath(path).getId()
getLanguageForPath(path) == IF path = "/main.js" THEN "javascript" ELSE "text"

Buckets == {"all", "javascript", "text"}

Providers == {"pA", "pB", "pC", "pM"}

\* pM is a registered object that does not implement beautify
HasBeautify(p) == p # "pM"

EmptyRegistry == [b \in Buckets |-> <<>>]

\* position at which an entry of priority prio goes: after every entry whose
\* priority is not lower (descending priority, registration order on ties)
InsertAt(list, prio) == Cardinality({i \in 1..Len(list) : list[i].priority >= prio})

registerProvider(reg, provider, languageIds, priority) ==
    [b \in Buckets |->
        IF b \in languageIds
        THEN LET k == InsertAt(reg[b], priority)
             IN  SubSeq(reg[b], 1, k) \o <<[provider |-> provider, priority |-> priority]>>
                 \o SubSeq(reg[b], k + 1, Len(reg[b]))
        ELSE reg[b]]

\* the entries of provider leave the buckets of languageIds; a bucket without
\* the provider stays as it is
removeProvider(reg, provider, languageIds) ==
    [b \in Buckets |->
        IF b \in languageIds
        THEN SelectSeq(reg[b], LAMBDA entry : entry.provider # provider)
        ELSE reg[b]]

RECURSIVE MergeByPriority(_, _)
\* stable merge of two lists sorted by descending priority; on a tie the
\* entry of the first list comes first
MergeByPriority(xs, ys) ==
    IF xs = <<>> THEN ys
    ELSE IF ys = <<>> THEN xs
    ELSE IF xs[1].priority >= ys[1].priority
         THEN <<xs[1]>> \o MergeByPriority(Tail(xs), ys)
         ELSE <<ys[1]>> \o MergeByPriority(xs, Tail(ys))

getProvidersForLanguageId(reg, languageId) == MergeByPriority(reg[languageId], reg["all"])

\* the registrations made before the application is ready: four providers
\* of javascript, asked in the order pA, pM, pB, pC; no provider of "text",
\* none of "all"
InitRegistry ==
    registerProvider(
        registerProvider(
            registerProvider(
                registerProvider(EmptyRegistry, "pC", {"javascript"}, 0),
                "pB", {"javascript"}, 1),
            "pM", {"javascript"}, 2),
        "pA", {"javascript"}, 3)

(***************************************************************************)
(* What a provider's beautify promise can settle with.                     *)
(***************************************************************************)
NoRanges == [kind |-> "none", replaceStart |-> Pos(0, 0), replaceEnd |-> Pos(0, 0)]

\* a ranges object without usable positions: reading the range throws
BadRanges == [kind |-> "bad", replaceStart |-> Pos(0, 0), replaceEnd |-> Pos(0, 0)]

Ranges(s, e) == [kind |-> "ok", replaceStart |-> s, replaceEnd |-> e]

Reject == [kind |-> "reject", hasChangedText |-> FALSE, changedText |-> <<>>, ranges |-> NoRanges]

ResolveNull == [Reject EXCEPT !.kind = "null"]

\* resolved with an object; changedText may be absent
ResolveObject(has, txt, r) ==
    [kind |-> "object", hasChangedText |-> has, changedText |-> txt, ranges |-> r]

InitTexts == { <<"a">> }

\* changedText of a result without ranges: the whole new text
WholeTexts == { <<"a">>, <<"b", NL, "b">> }

\* changedText of a result with ranges: the new text of the range
RangeTexts == { <<"a">>, <<"b">> }

RangeChoices == { Ranges(Pos(0, 0), Pos(0, 1)) }

Outcomes ==
    {Reject, ResolveNull, ResolveObject(FALSE, <<>>, NoRanges), ResolveObject(TRUE, <<>>, NoRanges),
     ResolveObject(TRUE, <<"a">>, BadRanges)}
    \cup {ResolveObject(TRUE, t, NoRanges) : t \in WholeTexts}
    \cup {ResolveObject(TRUE, t, r) : t \in RangeTexts, r \in RangeChoices}

\* JavaScript truthiness of the awaited value and of its changedText
Truthy(o) == o.kind = "object"

TruthyText(o) == o.hasChangedText /\ o.changedText # <<>>

(***************************************************************************)
(* State.                                                                  *)
(***************************************************************************)
VARIABLES
    registry,          \* _providerRegistrationHandler: bucket -> entries
    activeEditor,      \* EditorManager.getActiveEditor(), or NoEditor
    editors,           \* the state of each editor
    inv,               \* the beautify invocations, in the order they started
    beautifyEnabled,   \* enabled state of beautifyCommand
    storage,           \* localStorage item "BeautifyOnSave": {} when never set
    onSaveChecked,     \* checked state of beautifyOnSaveCommand
    toggles,           \* (storage, checked) as they were before the last two toggles
    recording          \* whether toggles is kept: an observer's switch, no program state

vars == <<registry, activeEditor, editors, inv, beautifyEnabled, storage, onSaveChecked, toggles,
          recording>>

Invocations == 1..MaxInvocations

(***************************************************************************)
(* An invocation is one call of _prettify that found an active editor:     *)
(*   status     "idle" (not started), "running", "done"                    *)
(*   trigger    "command" or "save"                                        *)
(*   editor     the editor _prettify read when it started                  *)
(*   cands      enabledProviders, the list the loop iterates               *)
(*   calls      indexes of cands whose beautify was called, in call order  *)
(*   pending    indexes whose promise has not settled                      *)
(*   rejected   how many of the settled promises rejected                  *)
(*   sawNull    whether a promise resolved to null                         *)
(*   attempted  whether the beautify of some provider was called           *)
(*   skipped    indexes reported by console.error (no beautify function)   *)
(*   busyTrue, busyFalse   calls of setProjectBusy(true / false, message)  *)
(*   finish     "applied": then-handler ran to its end                     *)
(*              "stopped": then-handler returned early                     *)
(*              "exhausted": catch-handler ran on the loop's Error         *)
(*              "applyFailed": catch-handler ran on an exception of the    *)
(*                             edit                                        *)
(*   edit       for an applied result: "replacedRange", "replacedAll" when *)
(*              the text differed, "identicalRange", "identicalAll" when   *)
(*              it did not                                                 *)
(***************************************************************************)
IdleInvocation ==
    [status |-> "idle", trigger |-> "none", editor |-> NoEditor, cands |-> <<>>,
     calls |-> <<>>, pending |-> {},
     rejected |-> 0, sawNull |-> FALSE, attempted |-> FALSE,
     skipped |-> {}, busyTrue |-> 0, busyFalse |-> 0, finish |-> "none", edit |-> "none"]

(***************************************************************************)
(* The functions of BeautificationManager.js.                              *)
(***************************************************************************)
\* a lookup that puts the bucket of every language after the bucket of the language
_getEnabledProvidersUnmerged(reg, e) ==
    reg[getLanguageForPath(FilePath(e))] \o reg["all"]

\* a lookup that reads the bucket of the language only
_getEnabledProvidersNoAll(reg, e) == reg[getLanguageForPath(FilePath(e))]

_getEnabledProviders(reg, e) ==
    getProvidersForLanguageId(reg, getLanguageForPath(FilePath(e)))

\* a loop that does not look for the beautify function: the item at index from
NextProviderAny(cands, from) == IF from <= Len(cands) THEN from ELSE 0

\* the loop of _getBeautifiedCodeDetails: the first item at or after index
\* from that has a beautify function, 0 when the loop runs off the list
NextProvider(cands, from) ==
    LET able == {k \in from..Len(cands) : HasBeautify(cands[k].provider)}
    IN  IF able = {} THEN 0 ELSE CHOOSE k \in able : \A j \in able : k <= j

\* a loop that never returns the value it awaited
ReturnsFromLoopNever(outcome) == FALSE

\* `if (beautyObject) return beautyObject`: whether the loop ends on this value
ReturnsFromLoop(outcome) == Truthy(outcome)

\* a then handler without its early return
ReturnsEarlyNever(beautyObject) == FALSE

\* `if (!beautyObject || !beautyObject.changedText) return`
ReturnsEarly(beautyObject) == ~Truthy(beautyObject) \/ ~TruthyText(beautyObject)

\* reading a range of a ranges object without positions throws
ReplaceThrows(beautyObject) == beautyObject.ranges.kind = "bad"

\* an edit that does not compare first
_replaceTextAlways(ed, beautyObject) ==
    IF beautyObject.ranges.kind # "none"
    THEN replaceSelection(
             setSelection(ed, beautyObject.ranges.replaceStart, beautyObject.ranges.replaceEnd),
             beautyObject.changedText)
    ELSE LET cursor == getCursorPos(ed)
         IN  setCursorPos(
                 replaceRange(ed, beautyObject.changedText, Pos(0, 0), getEndingCursorPos(ed)),
                 cursor.line, cursor.ch)

\* an edit that leaves the cursor where replaceRange put it
_replaceTextNoRestore(ed, beautyObject) ==
    IF beautyObject.ranges.kind # "none"
    THEN LET ranges == beautyObject.ranges
         IN  IF getRange(ed, ranges.replaceStart, ranges.replaceEnd) # beautyObject.changedText
             THEN replaceSelection(setSelection(ed, ranges.replaceStart, ranges.replaceEnd),
                                   beautyObject.changedText)
             ELSE ed
    ELSE IF getRange(ed, Pos(0, 0), getEndingCursorPos(ed)) # beautyObject.changedText
         THEN replaceRange(ed, beautyObject.changedText, Pos(0, 0), getEndingCursorPos(ed))
         ELSE ed

_replaceText(ed, beautyObject) ==
    IF beautyObject.ranges.kind # "none"
    THEN LET ranges == beautyObject.ranges
         IN  IF getRange(ed, ranges.replaceStart, ranges.replaceEnd) # beautyObject.changedText
             THEN replaceSelection(setSelection(ed, ranges.replaceStart, ranges.replaceEnd),
                                   beautyObject.changedText)
             ELSE ed
    ELSE IF getRange(ed, Pos(0, 0), getEndingCursorPos(ed)) # beautyObject.changedText
         THEN LET cursor == getCursorPos(ed)
              IN  setCursorPos(
                      replaceRange(ed, beautyObject.changedText, Pos(0, 0), getEndingCursorPos(ed)),
                      cursor.line, cursor.ch)
         ELSE ed

\* what stays of an invocation whose promise chain has ended: the closure
\* (editor, enabledProviders, loop position) is gone; how it ended and its
\* calls of setProjectBusy remain
Finished(rec, finish, edit, released) ==
    [IdleInvocation EXCEPT !.status = "done", !.finish = finish, !.edit = edit,
                           !.attempted = rec.attempted,
                           !.sawNull = rec.sawNull,
                           !.busyTrue = rec.busyTrue,
                           !.busyFalse = rec.busyFalse + released]

\* a catch handler that tells the user nothing
CatchHandlerSilent(rec, ed, why) == [inv |-> Finished(rec, why, "none", 1), ed |-> ed]

\* the catch handler of _prettify
CatchHandler(rec, ed, why) ==
    [inv |-> Finished(rec, why, "none", 1),
     ed  |-> displayErrorMessageAtCursor(ed,
                 IF hasSelection(ed) THEN "BEAUTIFY_ERROR_SELECTION" ELSE "BEAUTIFY_ERROR")]

\* the then handler of _prettify; an exception of the edit goes to the catch handler
ThenHandler(rec, ed, beautyObject) ==
    IF ReturnsEarly(beautyObject)
    THEN [inv |-> Finished(rec, "stopped", "none", 0), ed |-> ed]
    ELSE IF ReplaceThrows(beautyObject)
    THEN CatchHandler(rec, ed, "applyFailed")
    ELSE LET new == _replaceText(ed, beautyObject)
             edit == IF beautyObject.ranges.kind = "none"
                     THEN (IF new = ed THEN "identicalAll" ELSE "replacedAll")
                     ELSE (IF new = ed THEN "identicalRange" ELSE "replacedRange")
         IN  [inv |-> Finished(rec, "applied", edit, 1), ed |-> new]

\* a loop that does not await: every remaining provider is called at once
LoopFromAll(rec, ed, from) ==
    LET able == {k \in from..Len(rec.cands) : HasBeautify(rec.cands[k].provider)}
        RECURSIVE Sorted(_)
        Sorted(S) == IF S = {} THEN <<>>
                     ELSE LET m == CHOOSE x \in S : \A y \in S : x <= y
                          IN  <<m>> \o Sorted(S \ {m})
    IN  IF able = {}
        THEN CatchHandler(rec, ed, "exhausted")
        ELSE [inv |-> [rec EXCEPT !.calls = @ \o Sorted(able), !.pending = @ \cup able,
                                  !.attempted = TRUE],
              ed  |-> ed]

\* _getBeautifiedCodeDetails from index from up to its next await, and what
\* follows when it throws instead
LoopFrom(rec, ed, from) ==
    LET k    == NextProvider(rec.cands, from)
        last == IF k = 0 THEN Len(rec.cands) ELSE k - 1
        skip == {j \in from..last : ~HasBeautify(rec.cands[j].provider)}
        r    == [rec EXCEPT !.skipped = @ \cup skip]
    IN  IF k = 0
        THEN CatchHandler(r, ed, "exhausted")
        ELSE [inv |-> [r EXCEPT !.calls = Append(@, k), !.pending = @ \cup {k},
                                !.attempted = TRUE],
              ed  |-> ed]

\* a continuation that asks the same provider again when it declined
AfterAwaitRetry(rec, ed, k, outcome) ==
    IF ReturnsFromLoop(outcome)
    THEN ThenHandler(rec, ed, outcome)
    ELSE LoopFrom(rec, ed, k)

\* a continuation that applies a result and goes on with the next provider
AfterAwaitApplyAndGoOn(rec, ed, k, outcome) ==
    IF ReturnsFromLoop(outcome) /\ ~ReturnsEarly(outcome) /\ ~ReplaceThrows(outcome)
    THEN LoopFrom(rec, _replaceText(ed, outcome), k + 1)
    ELSE IF ReturnsFromLoop(outcome)
    THEN ThenHandler(rec, ed, outcome)
    ELSE LoopFrom(rec, ed, k + 1)

\* the continuation of `await item.provider.beautify(editor)` at index k
AfterAwait(rec, ed, k, outcome) ==
    IF ReturnsFromLoop(outcome)
    THEN ThenHandler(rec, ed, outcome)
    ELSE LoopFrom(rec, ed, k + 1)

\* a conversion of the flag to "1" / "0"
BoolToStringBit(b) == IF b THEN "1" ELSE "0"

_isBeautifyOnSaveEnabled(item) == item = {"true"}

\* the template literal `${!beautifyOnSave}`
BoolToString(b) == IF b THEN "true" ELSE "false"

(***************************************************************************)
(* Initial state: the application is ready (AppInit.appReady has run), the *)
(* extensions have registered their providers, no beautify has started.    *)
(***************************************************************************)
InitSelections == { [anchor |-> Pos(0, 0), head |-> Pos(0, 1)] }

InitEditor(t, sel) ==
    [text |-> t, anchor |-> sel.anchor, head |-> sel.head, ops |-> NoOps, messages |-> <<>>]

InitEditorStates == {InitEditor(t, sel) : t \in InitTexts, sel \in InitSelections}

InitStorage == { {}, {"true"}, {"false"}, {"1"} }

\* what Init and InitPrefs share
InitCommon ==
    /\ activeEditor \in Editors \cup {NoEditor}
    /\ editors \in [Editors -> InitEditorStates]
    /\ inv = [i \in Invocations |-> IdleInvocation]
    /\ beautifyEnabled = TRUE
    /\ onSaveChecked = _isBeautifyOnSaveEnabled(storage)
    /\ toggles = <<>>

Init ==
    /\ registry = InitRegistry
    /\ storage = {"true"}
    /\ recording = FALSE
    /\ InitCommon

\* the preference store holds anything; one provider of javascript
InitPrefs ==
    /\ registry = registerProvider(EmptyRegistry, "pA", {"javascript"}, 0)
    /\ storage \in InitStorage
    /\ recording = TRUE
    /\ InitCommon

(***************************************************************************)
(* Actions.                                                                *)
(***************************************************************************)
NextSlot == Cardinality({i \in Invocations : inv[i].status # "idle"}) + 1

\* _prettify, on editors as they are when it is called
_prettify(trigger, eds) ==
    IF activeEditor = NoEditor
    THEN /\ editors' = eds
         /\ inv' = inv
    ELSE /\ NextSlot <= MaxInvocations
         /\ LET editor == activeEditor
                rec    == [IdleInvocation EXCEPT
                              !.status = "running", !.trigger = trigger, !.editor = editor,
                              !.busyTrue = 1,
                              !.cands = _getEnabledProviders(registry, editor)]
                r      == LoopFrom(rec, eds[editor], 1)
            IN  /\ inv' = [inv EXCEPT ![NextSlot] = r.inv]
                /\ editors' = [eds EXCEPT ![editor] = r.ed]

\* the user runs the Beautify Code command
BeautifyCommand ==
    /\ beautifyEnabled
    /\ _prettify("command", editors)
    /\ UNCHANGED <<registry, activeEditor, beautifyEnabled, storage, onSaveChecked, toggles, recording>>

Documents == {FilePath(e) : e \in Editors}

\* an early return that does not look at the saved document
SaveIgnoredAnyDoc(item, editor, doc) ==
    \/ ~_isBeautifyOnSaveEnabled(item)
    \/ editor = NoEditor

\* the early return of _prettifyOnSave
SaveIgnored(item, editor, doc) ==
    \/ ~_isBeautifyOnSaveEnabled(item)
    \/ editor = NoEditor
    \/ FilePath(editor) # doc

\* DocumentManager triggers documentSaved for the document of path doc
_prettifyOnSave(doc) ==
    /\ LET editor == activeEditor
       IN  IF SaveIgnored(storage, editor, doc)
           THEN UNCHANGED <<editors, inv>>
           ELSE _prettify("save", [editors EXCEPT ![editor] = clearSelection(@)])
    /\ UNCHANGED <<registry, activeEditor, beautifyEnabled, storage, onSaveChecked, toggles, recording>>

\* a continuation that works on the editor active when it runs
ProviderSettlesOnActive(i, k, outcome) ==
    /\ inv[i].status = "running"
    /\ k \in inv[i].pending
    /\ LET rec    == [inv[i] EXCEPT
                         !.pending = @ \ {k},
                         !.rejected = IF outcome.kind = "reject" THEN @ + 1 ELSE @,
                         !.sawNull = (@ \/ outcome.kind = "null")]
           target == IF activeEditor = NoEditor THEN rec.editor ELSE activeEditor
           r      == AfterAwait(rec, editors[target], k, outcome)
       IN  /\ inv' = [inv EXCEPT ![i] = r.inv]
           /\ editors' = [editors EXCEPT ![target] = r.ed]
    /\ UNCHANGED <<registry, activeEditor, beautifyEnabled, storage, onSaveChecked, toggles, recording>>

\* the promise returned by the beautify call at index k of invocation i
\* settles, and the continuation of the await runs (a microtask: no other
\* event is handled in between), through the then or catch handler of
\* _prettify when the loop ends
ProviderSettles(i, k, outcome) ==
    /\ inv[i].status = "running"
    /\ k \in inv[i].pending
    /\ LET rec == [inv[i] EXCEPT
                      !.pending = @ \ {k},
                      !.rejected = IF outcome.kind = "reject" THEN @ + 1 ELSE @,
                      !.sawNull = (@ \/ outcome.kind = "null")]
           r   == AfterAwait(rec, editors[rec.editor], k, outcome)
       IN  /\ inv' = [inv EXCEPT ![i] = r.inv]
           /\ editors' = [editors EXCEPT ![rec.editor] = r.ed]
    /\ UNCHANGED <<registry, activeEditor, beautifyEnabled, storage, onSaveChecked, toggles, recording>>

\* EditorManager triggers activeEditorChange
_onActiveEditorChange(current) ==
    /\ current # activeEditor
    /\ activeEditor' = current
    /\ beautifyEnabled' = (current # NoEditor /\ Len(_getEnabledProviders(registry, current)) > 0)
    /\ UNCHANGED <<registry, editors, inv, storage, onSaveChecked, toggles, recording>>

LastTwo(s) == IF Len(s) > 2 THEN Tail(s) ELSE s

\* the user runs the Beautify Code on Save command
_toggleBeautifyOnSave ==
    /\ LET beautifyOnSave == _isBeautifyOnSaveEnabled(storage)
       IN  /\ storage' = {BoolToString(~beautifyOnSave)}
           /\ onSaveChecked' = ~beautifyOnSave
    /\ toggles' = IF recording
                  THEN LastTwo(Append(toggles, [storage |-> storage, checked |-> onSaveChecked]))
                  ELSE toggles
    /\ UNCHANGED <<registry, activeEditor, editors, inv, beautifyEnabled, recording>>

\* the language sets and priorities extensions register and remove with
LanguageSets == { {"all"}, {"javascript"}, {"javascript", "text"} }

Priorities == {0, 5}

Entries(reg) == Len(reg["all"]) + Len(reg["javascript"]) + Len(reg["text"])

\* an extension calls BeautificationManager.registerBeautificationProvider
registerBeautificationProvider(provider, languageIds, priority) ==
    /\ Entries(registry) + Cardinality(languageIds) <= MaxEntries
    /\ registry' = registerProvider(registry, provider, languageIds, priority)
    /\ UNCHANGED <<activeEditor, editors, inv, beautifyEnabled, storage, onSaveChecked, toggles,
                   recording>>

\* a removal that forgets the provider in every bucket
removeBeautificationProviderEverywhere(provider, languageIds) ==
    /\ registry' = removeProvider(registry, provider, Buckets)
    /\ UNCHANGED <<activeEditor, editors, inv, beautifyEnabled, storage, onSaveChecked, toggles,
                   recording>>

\* an extension calls BeautificationManager.removeBeautificationProvider
removeBeautificationProvider(provider, languageIds) ==
    /\ registry' = removeProvider(registry, provider, languageIds)
    /\ UNCHANGED <<activeEditor, editors, inv, beautifyEnabled, storage, onSaveChecked, toggles,
                   recording>>

Next ==
    \/ BeautifyCommand
    \/ \E doc \in Documents : _prettifyOnSave(doc)
    \/ \E i \in Invocations : \E k \in inv[i].pending : \E o \in Outcomes : ProviderSettles(i, k, o)
    \/ \E e \in Editors \cup {NoEditor} : _onActiveEditorChange(e)
    \/ _toggleBeautifyOnSave

Spec == Init /\ [][Next]_vars

SpecPrefs == InitPrefs /\ [][Next]_vars

\* every promise a provider returned settles in the end
ProvidersSettle ==
    \A i \in Invocations :
        WF_vars(\E k \in inv[i].pending : \E o \in Outcomes : ProviderSettles(i, k, o))

SpecLive == Init /\ [][Next]_vars /\ ProvidersSettle

\* extensions register and remove providers; no beautify is going on
InitRegistration ==
    /\ registry = registerProvider(EmptyRegistry, "pA", {"javascript"}, 2)
    /\ storage = {"false"}
    /\ recording = FALSE
    /\ InitCommon
    /\ activeEditor = "e1"

NextRegistration ==
    \/ \E p \in {"pA", "pB"} : \E ids \in LanguageSets : \E prio \in Priorities :
           registerBeautificationProvider(p, ids, prio)
    \/ \E p \in Providers : \E ids \in LanguageSets : removeBeautificationProvider(p, ids)

SpecRegistration == InitRegistration /\ [][NextRegistration]_vars

(***************************************************************************)
(* Properties.                                                             *)
(***************************************************************************)
Running(i) == inv[i].status = "running"

\* the editor of a running invocation
EditorOf(i) == editors[inv[i].editor]

\* C1: within one invocation the providers are called one at a time, in the
\* order of the candidate list: only the provider called last can have an
\* unsettled promise, the called indexes increase, and no provider with a
\* beautify function before the last called one was passed over.
C1_SequentialInOrder ==
    \A i \in Invocations :
        Running(i) =>
            LET c == inv[i].calls
            IN  /\ Len(c) >= 1
                /\ Cardinality(inv[i].pending) <= 1
                /\ inv[i].pending \subseteq {c[Len(c)]}
                /\ \A a, b \in 1..Len(c) : a < b => c[a] < c[b]
                /\ \A k \in 1..c[Len(c)] :
                       HasBeautify(inv[i].cands[k].provider) => \E a \in 1..Len(c) : c[a] = k

\* the second provider with a beautify function is awaited after the first one
\* settled
C1_Witness ==
    \E i \in Invocations : Running(i) /\ inv[i].calls = <<1, 3>> /\ inv[i].pending = {3}

\* a result follows the provider contract: its ranges are absent or a pair of positions
WellFormed(o) == o.kind = "object" /\ o.ranges.kind # "bad"

\* the results with a non-empty changedText that follow the contract
UsableResults == {o \in Outcomes : WellFormed(o) /\ TruthyText(o)}

\* text `after` is text `before` with the result's text in place of what it replaces
ResultApplied(before, after, o) ==
    IF o.ranges.kind = "none"
    THEN after = o.changedText
    ELSE LET s == PosToOffset(before, o.ranges.replaceStart)
             e == PosToOffset(before, o.ranges.replaceEnd)
         IN  after = SubSeq(before, 1, s) \o o.changedText \o SubSeq(before, e + 1, Len(before))

\* C2: when every provider asked before rejected and a provider resolves to an
\* object with a non-empty changedText (ranges absent or well formed), that
\* text is put in the editor and the invocation ends there: no provider after
\* it is called.
C2_FirstResultApplied ==
    [][\A i \in Invocations : \A k \in inv[i].pending : \A o \in UsableResults :
          (/\ inv'[i] # inv[i]
           /\ ~inv[i].sawNull
           /\ ProviderSettles(i, k, o))
          => /\ inv'[i].status = "done"
             /\ inv'[i].pending = {}
             /\ ResultApplied(EditorOf(i).text, editors'[inv[i].editor].text, o)]_vars

\* a result was applied after the providers before it rejected
C2_Witness ==
    \E i \in Invocations :
        /\ inv[i].finish = "applied" /\ inv[i].edit = "replacedAll" /\ ~inv[i].sawNull
        /\ editors["e1"].text = <<"b", NL, "b">>

\* C3: once a provider of an invocation resolved to null, no provider of that
\* invocation is pending (none is called after it) and the invocation applies
\* no result.
C3_NullStopsProviders ==
    \A i \in Invocations :
        inv[i].sawNull => (inv[i].pending = {} /\ inv[i].finish # "applied")

\* C4: an invocation in which a provider resolved to null does not end in the
\* catch handler: no error message is displayed for it.
C4_NullNeverFailure ==
    \A i \in Invocations :
        inv[i].sawNull => inv[i].finish \notin {"exhausted", "applyFailed"}

\* C5: when the last provider with a beautify function rejects and every
\* provider called before it rejected too, the invocation ends as exhausted,
\* one more error message is displayed in its editor, and the text of the
\* editor and its counts of replaceRange and replaceSelection stay as they were.
C5_ExhaustionReported ==
    [][\A i \in Invocations : \A k \in inv[i].pending :
          (/\ inv'[i] # inv[i]
           /\ inv[i].rejected + 1 = Len(inv[i].calls)
           /\ NextProvider(inv[i].cands, k + 1) = 0
           /\ ProviderSettles(i, k, Reject))
          => LET before == EditorOf(i)
                 after  == editors'[inv[i].editor]
             IN  /\ inv'[i].finish = "exhausted"
                 /\ Len(after.messages) = Len(before.messages) + 1
                 /\ after.text = before.text
                 /\ after.ops.replaceRange = before.ops.replaceRange
                 /\ after.ops.replaceSelection = before.ops.replaceSelection]_vars

\* every provider that was called rejected, and the invocation ended as exhausted
C5_Witness ==
    \E i \in Invocations : \E e \in Editors :
        /\ inv[i].finish = "exhausted" /\ inv[i].attempted /\ ~inv[i].sawNull
        /\ Len(editors[e].messages) >= 1
        /\ editors[e].text \in InitTexts

\* C6: an invocation that has ended called setProjectBusy(false) as many
\* times as it called setProjectBusy(true): once.
C6_BusyReleased ==
    \A i \in Invocations :
        inv[i].status = "done" => (inv[i].busyTrue = 1 /\ inv[i].busyFalse = 1)

\* the text a result would replace in editor ed
TargetText(ed, o) ==
    IF o.ranges.kind = "none" THEN ed.text
    ELSE getRange(ed, o.ranges.replaceStart, o.ranges.replaceEnd)

\* C7: applying a result whose changedText equals the text it would replace
\* changes nothing of the editor: no setSelection, replaceSelection,
\* replaceRange or setCursorPos is made, text and selection stay as they were.
C7_IdenticalTextIsNoOp ==
    [][\A i \in Invocations : \A k \in inv[i].pending : \A o \in UsableResults :
          (/\ inv'[i] # inv[i]
           /\ TargetText(EditorOf(i), o) = o.changedText
           /\ ProviderSettles(i, k, o))
          => /\ inv'[i].finish = "applied"
             /\ editors'[inv[i].editor] = EditorOf(i)]_vars

\* one invocation applied an identical whole text, another an identical range
C7_Witness ==
    \E i, j \in Invocations :
        /\ inv[i].finish = "applied" /\ inv[i].edit = "identicalAll"
        /\ inv[j].finish = "applied" /\ inv[j].edit = "identicalRange"

\* C8: after a result without ranges whose text differs from the document is
\* applied, the cursor has the line and ch it had before the replacement.
C8_CursorRestored ==
    [][\A i \in Invocations : \A k \in inv[i].pending : \A o \in UsableResults :
          (/\ inv'[i] # inv[i]
           /\ o.ranges.kind = "none"
           /\ EditorOf(i).text # o.changedText
           /\ ProviderSettles(i, k, o))
          => /\ editors'[inv[i].editor].text = o.changedText
             /\ getCursorPos(editors'[inv[i].editor]) = getCursorPos(EditorOf(i))]_vars

\* a whole text was replaced by a longer one and the cursor was set back
C8_Witness ==
    \E i \in Invocations : \E e \in Editors :
        /\ inv[i].edit = "replacedAll"
        /\ editors[e].ops.replaceRange >= 1 /\ editors[e].ops.setCursorPos >= 1
        /\ Len(editors[e].text) > 1
        /\ getCursorPos(editors[e]) = Pos(0, 1)

\* C9: a documentSaved event changes the invocations or the editors only if
\* the stored preference is "true", there is an active editor, and the saved
\* document is the document of the active editor.
C9_SaveStartsOnlyForActiveDocument ==
    [][\A doc \in Documents :
          _prettifyOnSave(doc)
          => \/ (inv' = inv /\ editors' = editors)
             \/ (/\ storage = {"true"}
                 /\ activeEditor # NoEditor
                 /\ FilePath(activeEditor) = doc)]_vars

\* a save started an invocation, which waits for its provider
C9_Witness ==
    \E i \in Invocations : Running(i) /\ inv[i].trigger = "save" /\ inv[i].pending # {}

\* JavaScript reading of the stored item as the flag
Reading(item) == _isBeautifyOnSaveEnabled(item)

\* C10 as stated: after two toggles the stored item and the checkmark are what
\* they were before the two toggles.
C10_ToggleTwiceRestoresStore ==
    Len(toggles) = 2 => toggles[1] = [storage |-> storage, checked |-> onSaveChecked]

\* C10, amended: after two toggles the checkmark and the flag read from the
\* store are what they were before the two toggles; the stored item is what it
\* was when it was "true" or "false", and "false" otherwise.
C10_ToggleTwiceRestoresFlag ==
    Len(toggles) = 2 =>
        LET was == toggles[1]
        IN  /\ onSaveChecked = was.checked
            /\ Reading(storage) = Reading(was.storage)
            /\ storage = IF was.storage \in {{"true"}, {"false"}} THEN was.storage ELSE {"false"}

\* two toggles were made on a store whose item was never set, or on one that
\* held something else than "true" and "false"
C10_Witness ==
    /\ Len(toggles) = 2
    /\ toggles[1].storage \in {{}, {"1"}}
    /\ toggles[2].storage = {"true"}

Languages == Buckets \ {"all"}

\* the providers of a list of registry entries
ProvidersOf(list) == {list[k].provider : k \in 1..Len(list)}

RECURSIVE AskedWhenAllReject(_, _)
\* the indexes a running invocation calls, in call order, when every call rejects
AskedWhenAllReject(rec, ed) ==
    LET k == rec.calls[Len(rec.calls)]
        r == AfterAwait([rec EXCEPT !.pending = {}, !.rejected = @ + 1], ed, k, Reject)
    IN  IF r.inv.status = "done" THEN rec.calls ELSE AskedWhenAllReject(r.inv, r.ed)

\* the entries an invocation on editor e asks, in the order it asks them, when
\* every provider rejects
AskOrder(reg, e) ==
    LET cands == _getEnabledProviders(reg, e)
        rec   == [IdleInvocation EXCEPT !.status = "running", !.editor = e, !.busyTrue = 1,
                                        !.cands = cands]
        r     == LoopFrom(rec, editors[e], 1)
        calls == IF r.inv.status = "done" THEN <<>> ELSE AskedWhenAllReject(r.inv, r.ed)
    IN  [a \in 1..Len(calls) |-> cands[calls[a]]]

\* C11: in the candidate list of a language an entry of higher priority stands
\* before every entry of lower priority, for the list the registry returns and
\* for the list _getEnabledProviders hands to the loop; the loop asks the
\* providers in that order.
C11_HigherPriorityFirst ==
    /\ \A id \in Languages :
          LET list == getProvidersForLanguageId(registry, id)
          IN  \A a, b \in 1..Len(list) : list[a].priority > list[b].priority => a < b
    /\ \A e \in Editors :
          LET list  == _getEnabledProviders(registry, e)
              asked == AskOrder(registry, e)
          IN  /\ \A a, b \in 1..Len(list) : list[a].priority > list[b].priority => a < b
              /\ \A a, b \in 1..Len(asked) : asked[a].priority > asked[b].priority => a < b
              /\ Len(asked) = Cardinality({k \in 1..Len(list) : HasBeautify(list[k].provider)})

\* a provider of every language has a higher priority than a provider of
\* javascript registered before it, and both are asked
C11_Witness ==
    /\ Len(registry["all"]) >= 1 /\ Len(registry["javascript"]) >= 1
    /\ registry["all"][1].priority > registry["javascript"][1].priority
    /\ Len(AskOrder(registry, "e1")) >= 2

\* C12: after a provider is registered under "all" it is a candidate of every
\* language id, with or without a bucket of its own, and of every editor.
C12_AllIsEveryLanguage ==
    [][\A p \in Providers : \A ids \in LanguageSets : \A prio \in Priorities :
          ("all" \in ids /\ registerBeautificationProvider(p, ids, prio))
          => /\ \A id \in Languages : p \in ProvidersOf(getProvidersForLanguageId(registry', id))
             /\ \A e \in Editors : p \in ProvidersOf(_getEnabledProviders(registry', e))]_vars

\* no provider was ever registered for "text", and a provider of every
\* language is a candidate of the editor of /notes.txt
C12_Witness ==
    /\ registry["text"] = <<>>
    /\ registry["all"] # <<>>
    /\ ProvidersOf(_getEnabledProviders(registry, "e2")) = ProvidersOf(registry["all"])

C14_ExhaustionOnlyAfterAttempt ==
    \A i \in Invocations : inv[i].finish = "exhausted" => inv[i].attempted

\* the candidate list without the entries that have no beautify function
Compact(cands) == SelectSeq(cands, LAMBDA item : HasBeautify(item.provider))

\* C15: the loop calls no entry without a beautify function and reports each
\* one it passes; the providers it calls are, in order, those it would call
\* were these entries not in the list; and a usable result of a provider
\* called after such an entry is applied.
C15_MalformedSkipped ==
    /\ [](\A i \in Invocations :
             Running(i) =>
                 LET c    == inv[i].calls
                     list == inv[i].cands
                 IN  /\ \A a \in 1..Len(c) : HasBeautify(list[c[a]].provider)
                     /\ inv[i].skipped = {j \in 1..c[Len(c)] : ~HasBeautify(list[j].provider)}
                     /\ [a \in 1..Len(c) |-> list[c[a]]] = SubSeq(Compact(list), 1, Len(c)))
    /\ [][\A i \in Invocations : \A k \in inv[i].pending : \A o \in UsableResults :
             (/\ inv'[i] # inv[i]
              /\ inv[i].skipped # {}
              /\ ProviderSettles(i, k, o))
             => /\ inv'[i].finish = "applied"
                /\ ResultApplied(EditorOf(i).text, editors'[inv[i].editor].text, o)]_vars

\* the entry without a beautify function was reported and passed, and the
\* provider after it was called
C15_Witness ==
    \E i \in Invocations :
        /\ Running(i) /\ inv[i].skipped = {2} /\ inv[i].pending = {3}
        /\ ~HasBeautify(inv[i].cands[2].provider)

\* the results whose changedText is absent or empty
EmptyResults == {o \in Outcomes : o.kind = "object" /\ ~TruthyText(o)}

\* C16: when a provider resolves to an object whose changedText is absent or
\* empty the invocation ends there: no provider is called after it and no
\* editor changes (no replacement, no error message).
C16_EmptyResultStops ==
    [][\A i \in Invocations : \A k \in inv[i].pending : \A o \in EmptyResults :
          (/\ inv'[i] # inv[i]
           /\ ProviderSettles(i, k, o))
          => /\ inv'[i].status = "done"
             /\ inv'[i].finish = "stopped"
             /\ inv'[i].pending = {}
             /\ editors' = editors]_vars

\* an invocation ended in the early return of the then handler; no editor
\* shows a message or another text
C16_Witness ==
    \E i \in Invocations :
        /\ inv[i].finish = "stopped" /\ inv[i].attempted
        /\ \A e \in Editors : editors[e].messages = <<>> /\ editors[e].text \in InitTexts

\* C17: at most one invocation is running at any time.
C17_OneInFlight == Cardinality({i \in Invocations : Running(i)}) <= 1

\* C18: a running invocation waits for exactly one beautify call; an editor's
\* text or call counts change only in the step that ends an invocation of
\* that editor as applied, and the change is that of one _replaceText on the
\* editor as it was before the step; an invocation that has ended does
\* nothing more.
C18_OneAtomicEdit ==
    /\ [](\A i \in Invocations : Running(i) => Cardinality(inv[i].pending) = 1)
    /\ [][\A e \in Editors :
             (editors'[e].text # editors[e].text \/ editors'[e].ops # editors[e].ops)
             => \E i \in Invocations :
                    /\ Running(i) /\ inv[i].editor = e
                    /\ inv'[i].status = "done" /\ inv'[i].finish = "applied"
                    /\ \E o \in UsableResults : editors'[e] = _replaceText(editors[e], o)]_vars
    /\ [][\A i \in Invocations : inv[i].status = "done" => inv'[i] = inv[i]]_vars

\* a range was replaced by one setSelection and one replaceSelection
C18_Witness ==
    \E i \in Invocations : \E e \in Editors :
        /\ inv[i].finish = "applied" /\ inv[i].edit = "replacedRange"
        /\ editors[e].ops.setSelection = 1 /\ editors[e].ops.replaceSelection = 1

\* C19: a step of a running invocation changes no editor but the one the
\* invocation started on, and an error message it reports is displayed in that
\* editor; the editor an invocation starts on is the active editor.
C19_OwnEditorOnly ==
    /\ [][\A i \in Invocations :
             (Running(i) /\ inv'[i] # inv[i])
             => /\ \A e \in Editors \ {inv[i].editor} : editors'[e] = editors[e]
                /\ inv'[i].finish \in {"exhausted", "applyFailed"}
                       => Len(editors'[inv[i].editor].messages) = Len(EditorOf(i).messages) + 1]_vars
    /\ [][\A i \in Invocations :
             (inv[i].status = "idle" /\ inv'[i].status # "idle")
             => /\ \A e \in Editors \ {activeEditor} : editors'[e] = editors[e]
                /\ inv'[i].status = "running" => inv'[i].editor = activeEditor]_vars

\* an invocation of e1 is waiting for its second provider while e2 is the
\* active editor
C19_Witness ==
    \E i \in Invocations :
        /\ Running(i) /\ inv[i].editor = "e1" /\ inv[i].rejected >= 1
        /\ activeEditor = "e2"

\* C20: when every promise settles a running invocation ends; it calls each
\* entry of its candidate list at most once; and nothing but the settling of
\* its pending promise moves a running invocation: while the promise does
\* not settle the invocation neither ends nor calls another provider.
C20_CompletesWhenProvidersSettle ==
    /\ \A i \in Invocations : (Running(i) ~> inv[i].status = "done")
    /\ [](\A i \in Invocations :
             /\ Len(inv[i].calls) <= Len(inv[i].cands)
             /\ \A a, b \in 1..Len(inv[i].calls) :
                    a # b => inv[i].calls[a] # inv[i].calls[b])
    /\ [][\A i \in Invocations :
             (Running(i) /\ inv'[i] # inv[i])
             => \E k \in inv[i].pending : \E o \in Outcomes : ProviderSettles(i, k, o)]_vars

\* every invocation the model allows has started, called a provider and ended
C20_Witness ==
    \A i \in Invocations : inv[i].status = "done" /\ inv[i].attempted

====
